---- MODULE Spec2Model ----
(***************************************************************************)
(* Frame feeder of ts_container: the feeder thread (feed_frames), the      *)
(* readiness probe (is_file_ready), the keyframe heuristic (is_iframe),    *)
(* the timestamps attached to the pushed buffers, the appsrc queue and the *)
(* pad probe that writes the log rows (video_probe).                       *)
(*                                                                         *)
(* The repository holds several builds of the same program.  The variable  *)
(* variant names the build a behaviour runs:                               *)
(*   "main_cpp"  src/main.cpp                                              *)
(*   "part_000"  src/unnamed/part_000 (keyframe filter, pad probe, Redis)  *)
(* Time is in microseconds of the steady clock, timestamps in nanoseconds. *)
(***************************************************************************)
EXTENDS Integers, Sequences, FiniteSets, TLC

\* ---------------------------------------------------------------- bounds
MaxFiles == 2
MaxEnvOps == 1
MaxNow == 150000
MaxInFlight == 1
MaxAllocFrames == 14

\* ------------------------------------------------------ program constants
GST_SECOND == 1000000000
GST_CLOCK_TIME_NONE == -1
IFRAME_MIN_SIZE == 30 * 1024
max_attempts == 5
delay_ms == 2
RetryDelayMs == 100
CustomPtsBase == 324000000

\* ------------------------------------------------------------ input sets
Variants == {"main_cpp", "part_000"}
FpsSet == {250, 300}
StartIndexSet == {7}
Absent == -1
SizeSet == {IFRAME_MIN_SIZE - 1, IFRAME_MIN_SIZE}
JitterSet == {0, 5000}
AllocFpsSet == {7, 24, 30, 60, 150, 250, 300, 1000}

VARIABLES
    variant,          \* which build runs
    TARGET_FPS,       \* argv[2]
    start_index,      \* current_index as main leaves it before the feeder starts
    frame_counter,    \* static guint64 frame_counter
    current_index,    \* static guint64 current_index
    now,              \* steady clock, microseconds
    start_time,       \* feed_frames: auto start_time (part_000)
    next_frame_time,  \* feed_frames: static next_frame_time (main.cpp)
    pc,               \* position of the feeder thread
    last_size,        \* is_file_ready: last_size
    attempt,          \* is_file_ready: i
    samples,          \* sizes sampled by the running/last is_file_ready call
    load_size,        \* feed_frames: size (tellg)
    files,            \* the frame directory: index -> size or Absent
    env_ops,          \* operations of the external producer so far
    appsrc_q,         \* buffers accepted by appsrc, not yet through h265parse
    pushed,           \* every buffer appsrc accepted, as it was at the push
    emitted,          \* every buffer appsrc accepted, as appsrc queued it
    custom_pts,       \* feed_frames: static custom_pts (main.cpp)
    increment_index,  \* feed_frames: static increment_index (main.cpp)
    csv,              \* rows of the primary log
    csv_summary,      \* rows of the summary log
    lookups,          \* keys of the GET commands issued to the store
    redis,            \* the redisContext is non-null
    store,            \* what the key-value store holds
    prev,             \* prev_ball, prev_over, prev_innings
    flushed,          \* rows of each log that have been flushed to its file
    foreign_access,   \* scheduler variables a thread other than the feeder has read or written
    boot,             \* main before the feeder starts: position, pipeline, faults met,
                      \* argv[1] and the directory entries in the order main was given them
    probe,            \* the pad probe in progress on the streaming thread
    tick,             \* the tick in progress: target time, counters at its start, outcome
    last_tick,        \* the tick before it
    buffer_owner,     \* who holds the reference to the GstBuffer of the tick
    late_ops,         \* what the feeder did to a buffer after the push call
    main,             \* the main thread: position and what made the loop quit
    run,              \* 1 in the first run of the program, 2 in the second
    prev_run          \* the timestamps the first run attached and logged

vars == << variant, TARGET_FPS, start_index, frame_counter, current_index, now,
           start_time, next_frame_time, pc, last_size, attempt, samples,
           load_size, files, env_ops, appsrc_q, pushed, emitted, custom_pts,
           increment_index, csv, csv_summary, lookups, redis, store, prev, probe,
           tick, last_tick, buffer_owner, late_ops, main, run, prev_run,
           flushed, foreign_access, boot >>

\* ------------------------------------------------------------- operators

RECURSIVE GCD(_, _)
GCD(a, b) == IF b = 0 THEN a ELSE GCD(b, a % b)

\* gst_util_uint64_scale(val, num, denom): val * num / denom rounded down,
\* exact whatever the size of the product.  The quotient is formed here from
\* the reduced fraction, piecewise, so that no intermediate value leaves the
\* range of the model checker's integers; the value is the same.
gst_util_uint64_scale(val, num, denom) ==
    LET g == GCD(num, denom)
        n1 == num \div g
        d1 == denom \div g
        lo == val % d1
    IN  (val \div d1) * n1 + lo * (n1 \div d1) + (lo * (n1 % d1)) \div d1

\* the timestamp feed_frames attaches to frame n
\* a timestamp taken from the whole milliseconds elapsed at frame n
PtsFromMilliseconds(n, F) == ((n * 1000) \div F) * (GST_SECOND \div 1000)

BufferPts(n, F) == gst_util_uint64_scale(n, GST_SECOND, F)

\* the duration feed_frames attaches to every frame
BufferDuration(F) == gst_util_uint64_scale(1, GST_SECOND, F)

\* FrameIntervalMs = 1000.0 / TARGET_FPS, then
\* std::chrono::microseconds(static_cast<int>(FrameIntervalMs * 1000))
frame_duration(F) == 1000000 \div F

\* the static increments vector of main.cpp
increments == << 299, 300, 301 >>

FileIdx == start_index .. (start_index + MaxFiles - 1)

\* fs::exists / fs::file_size of the file of index i
FileSizeOf(i) == IF i \in DOMAIN files THEN files[i] ELSE Absent
Exists(i) == FileSizeOf(i) # Absent

\* is_iframe: exists and file_size >= IFRAME_MIN_SIZE; an exception is false
is_iframe(size) == size # Absent /\ size >= IFRAME_MIN_SIZE

\* ------------------------------------------------------------- strings
\* A std::string is a sequence of one-character strings.
Q == "\""
S_ball == << "b", "a", "l", "l" >>
S_over == << "o", "v", "e", "r" >>
S_innings == << "i", "n", "n", "i", "n", "g", "s" >>
S_isStart == << "i", "s", "S", "t", "a", "r", "t" >>
S_matchID == << "m", "a", "t", "c", "h", "I", "D" >>
S_frame_name == << "f", "r", "a", "m", "e", "_", "n", "a", "m", "e" >>
S_ptp_timestamp == << "p", "t", "p", "_", "t", "i", "m", "e", "s", "t", "a", "m", "p" >>
S_received_at == << "r", "e", "c", "e", "i", "v", "e", "d", "_", "a", "t" >>
S_NA == << "N", "A" >>
S_false == << "f", "a", "l", "s", "e" >>
S_hevc == << ".", "h", "e", "v", "c" >>
S_frame_ == << "f", "r", "a", "m", "e", "_" >>
camera_prefix == << "c", "1" >>

DigitChar(d) == << "0", "1", "2", "3", "4", "5", "6", "7", "8", "9" >>[d + 1]

RECURSIVE Decimal(_)
\* the decimal digits of n, as printf prints them
Decimal(n) == IF n < 10 THEN << DigitChar(n) >>
              ELSE Decimal(n \div 10) \o << DigitChar(n % 10) >>

RECURSIVE ZeroPad(_, _)
\* printf's %0<w>: zeros on the left up to width w, never a truncation
ZeroPad(s, w) == IF Len(s) >= w THEN s ELSE ZeroPad(<< "0" >> \o s, w)

\* make_frame_filename: "frame_%s_%09llu.hevc"
make_frame_filename(idx) ==
    S_frame_ \o camera_prefix \o << "_" >> \o ZeroPad(Decimal(idx), 9) \o S_hevc

\* std::string::find(pat, from): first 0-based position >= from where pat
\* starts, or -1 (npos)
StrFind(s, pat, from) ==
    LET hits == { p \in from .. (Len(s) - Len(pat)) :
                    \A k \in 1 .. Len(pat) : s[p + k] = pat[k] }
    IN  IF hits = {} THEN -1 ELSE CHOOSE p \in hits : \A q \in hits : p <= q

\* std::string::find_first_of(set, from)
StrFindFirstOf(s, chars, from) ==
    LET hits == { p \in from .. (Len(s) - 1) : s[p + 1] \in chars }
    IN  IF hits = {} THEN -1 ELSE CHOOSE p \in hits : \A q \in hits : p <= q

\* std::string::find_last_of(c)
StrFindLastOf(s, c) ==
    LET hits == { p \in 0 .. (Len(s) - 1) : s[p + 1] = c }
    IN  IF hits = {} THEN -1 ELSE CHOOSE p \in hits : \A q \in hits : p >= q

\* std::string::substr(pos, n), 0-based, clipped at the end of the string
StrSubstr(s, pos, n) ==
    LET last == IF pos + n > Len(s) THEN Len(s) ELSE pos + n
    IN  SubSeq(s, pos + 1, last)

\* redis_key = fname.substr(0, fname.find_last_of('.'))
redis_key(fname) ==
    LET dot == StrFindLastOf(fname, ".")
    IN  IF dot = -1 THEN fname ELSE StrSubstr(fname, 0, dot)

\* the extract lambda of video_probe
extract(json, key) ==
    LET found == StrFind(json, << Q >> \o key \o << Q, ":" >>, 0)
        pos == found + Len(key) + 3
    IN  IF found = -1 THEN S_NA
        ELSE IF pos >= Len(json) THEN S_NA
        ELSE IF json[pos + 1] = Q
             THEN LET end == StrFind(json, << Q >>, pos + 1)
                  IN  IF end = -1 THEN S_NA
                      ELSE StrSubstr(json, pos + 1, end - pos - 1)
             ELSE LET end == StrFindFirstOf(json, {",", "}"}, pos)
                  IN  IF end = -1 THEN StrSubstr(json, pos, Len(json))
                      ELSE StrSubstr(json, pos, end - pos)

\* replies of the store to a GET: no string reply, or a string value
NoReply == [ type |-> "REDIS_REPLY_NIL", str |-> << >> ]
StringReply(s) == [ type |-> "REDIS_REPLY_STRING", str |-> s ]
JsonFull ==
    << "{", Q >> \o S_ball \o << Q, ":", Q, "2", Q, ",", Q >> \o S_over
    \o << Q, ":", "4", ",", Q >> \o S_innings \o << Q, ":", "1", "}" >>
JsonCut ==
    << "{", Q >> \o S_ball \o << Q, ":", "3", ",", Q >> \o S_frame_name
    \o << Q, ":", Q, "f" >>

\* contents of the store: a value under the key of some frame names
StoreKey(i) == redis_key(make_frame_filename(i))
EmptyStore == [ k \in {} |-> << >> ]
StoreOf(indices) ==
    [ k \in { StoreKey(i) : i \in indices } |->
        IF \E i \in indices : k = StoreKey(i) /\ i % 2 = 0
        THEN JsonCut ELSE JsonFull ]

\* redisCommand(context, "GET %s", key)
RedisGet(contents, key) ==
    IF key \in DOMAIN contents THEN StringReply(contents[key]) ELSE NoReply

\* the fields video_probe holds before the GET
MetaDefaults ==
    [ ball |-> << "1" >>, frame_name |-> S_NA, innings |-> << "1" >>,
      isStart |-> S_false, matchID |-> << "1", "2", "3" >>, over |-> << "1" >>,
      ptp_timestamp |-> S_NA, received_at |-> S_NA ]

\* the fields video_probe holds after the GET; connected is pdata->redis
MetaOf(connected, reply) ==
    IF connected /\ reply.type = "REDIS_REPLY_STRING"
    THEN LET json == reply.str IN
         [ ball |-> extract(json, S_ball),
           frame_name |-> extract(json, S_frame_name),
           innings |-> extract(json, S_innings),
           isStart |-> extract(json, S_isStart),
           matchID |-> extract(json, S_matchID),
           over |-> extract(json, S_over),
           ptp_timestamp |-> extract(json, S_ptp_timestamp),
           received_at |-> extract(json, S_received_at) ]
    ELSE MetaDefaults

\* ------------------------------------------------- pipeline construction
\* The builds whose main is followed from its first line: the two programs
\* whose feeder is modelled, the audio/video program of src/Makefile with
\* its encoder fallback ("makefile_av") and the store-backed program of
\* src/Makefile ("makefile_ts").
Builds == { "main_cpp", "part_000", "makefile_av", "makefile_ts" }

\* gst_element_link_many(appsrc, h265parser, queue, mpegtsmux [, filesink])
VideoChain(b) ==
    CASE b = "part_000" -> << "appsrc", "h265parse", "queue1", "mpegtsmux" >>
      [] b = "makefile_av" -> << "appsrc", "h265parse", "vqueue", "mpegtsmux" >>
      [] OTHER -> << "appsrc", "h265parse", "queue1", "mpegtsmux", "filesink" >>

\* the audio branch linked in one call: whole in part_000, up to the
\* resampler in the audio/video program
AudioChain(b) ==
    CASE b = "part_000" ->
           << "a_src", "a_caps", "a_queue1", "a_convert", "a_resample",
              "a_rate", "a_split", "a_enc", "a_parse", "a_queue3", "a_queue2",
              "mpegtsmux" >>
      [] b = "makefile_av" ->
           << "aud_src", "rtpjbuf", "depay", "aconv", "ares" >>
      [] OTHER -> << >>

\* mux -> filesink is a link of its own where the video chain stops at the mux
SinkLinkedAlone(b) == b \in { "part_000", "makefile_av" }

SeqRange(s) == { s[i] : i \in 1 .. Len(s) }
ChainLinks(s) == { << s[i], s[i + 1] >> : i \in 1 .. (Len(s) - 1) }
\* what a failed gst_element_link_many may leave linked: the pairs before
\* the one that failed
PrefixLinks(s, k) == { << s[i], s[i + 1] >> : i \in 1 .. k }

\* gst_bin_add_many(GST_BIN(pipeline), ...) before the first link
BaseBin(b) == SeqRange(VideoChain(b)) \cup SeqRange(AudioChain(b))
              \cup { "filesink" }

\* gst_bin_remove: the element leaves the bin and its pads are unlinked
BinRemove(bin, e) == bin \ { e }
Unlink(links, e) == { l \in links : l[1] # e /\ l[2] # e }

\* what can go wrong during construction, per build
FaultsOf(b) ==
    (IF b \in { "part_000", "makefile_ts" } THEN { "store" } ELSE {})
    \cup { "element", "link_video" }
    \cup (IF AudioChain(b) # << >> THEN { "link_audio" } ELSE {})
    \cup (IF SinkLinkedAlone(b) THEN { "link_sink" } ELSE {})
    \cup (IF b = "makefile_av"
          THEN { "aacenc", "aacparse", "aac_chain", "aac_mux",
                 "mp2enc", "mp2_chain", "mp2_mux" }
          ELSE {})

\* the pipeline of a build as a fault-free construction leaves it; status
\* is what main returned once pc is "returned"
Constructed(b) ==
    [ pc |-> "feeding", faults |-> {}, bin |-> BaseBin(b),
      links |-> ChainLinks(VideoChain(b)) \cup ChainLinks(AudioChain(b))
                \cup (IF SinkLinkedAlone(b)
                      THEN { << "mpegtsmux", "filesink" >> } ELSE {}),
      aac_added |-> {}, using_aac |-> FALSE, status |-> 0,
      argv1 |-> start_index, listing |-> << >> ]

\* ------------------------------------------------------------------ Init

NoBuffer == [ pts |-> GST_CLOCK_TIME_NONE, dts |-> GST_CLOCK_TIME_NONE,
              duration |-> GST_CLOCK_TIME_NONE, offset |-> -1, size |-> 0 ]
ProbeIdle == [ busy |-> FALSE, buffer |-> NoBuffer, fname |-> << >>,
               meta |-> MetaDefaults, awaiting |-> FALSE ]

NoRun == [ attached |-> << >>, logged |-> << >> ]

\* the logs hold their header lines only
NoRows == [ csv |-> 0, summary |-> 0 ]

\* no tick has started
NoTick == [ target |-> 0, counter |-> 0, index |-> 0, outcome |-> "none",
            stop_seen |-> FALSE ]

\* the main thread sits in g_main_loop_run
MainLoop == [ pc |-> "loop", quit_by |-> "none", last_msg |-> "none" ]

Init ==
    /\ variant \in Variants
    /\ TARGET_FPS \in FpsSet
    /\ start_index \in StartIndexSet
    /\ frame_counter = 0
    /\ current_index = start_index
    /\ now = 0
    /\ start_time = 0
    /\ next_frame_time = 0
    /\ pc = "pace"
    /\ last_size = 0
    /\ attempt = 0
    /\ samples = << >>
    /\ load_size = 0
    /\ files \in [ FileIdx -> {Absent} \cup SizeSet ]
    /\ env_ops = 0
    /\ appsrc_q = << >>
    /\ pushed = << >>
    /\ emitted = << >>
    /\ custom_pts = CustomPtsBase
    /\ increment_index = 0
    /\ csv = << >>
    /\ csv_summary = << >>
    /\ flushed = NoRows
    /\ foreign_access = {}
    /\ boot = Constructed(variant)
    /\ lookups = << >>
    /\ redis \in (IF variant = "part_000" THEN BOOLEAN ELSE {FALSE})
    /\ store \in (IF redis
                  THEN { EmptyStore, StoreOf(0 .. 1 \cup FileIdx) }
                  ELSE { EmptyStore })
    /\ prev = [ ball |-> << "0" >>, over |-> << "0" >>, innings |-> << "0" >> ]
    /\ probe = ProbeIdle
    /\ tick = NoTick
    /\ last_tick = NoTick
    /\ buffer_owner = "none"
    /\ late_ops = {}
    /\ main = MainLoop
    /\ run = 1
    /\ prev_run = NoRun

\* ------------------------------------------------- the external producer
\* The capture side writes, rewrites and evicts frame files at any moment.
\* Only the file the feeder is looking at can influence it: files below
\* current_index are never read again and files above it are covered by Init.
\* A second run of the program replays the directory of the first, so the
\* producer is quiet in it.

\* The feeder's next step looks at the file (exists, file_size, open, read).
\* A change of the file made while the feeder is elsewhere is the same
\* change made just before the feeder looks again, so the producer's steps
\* are taken at these points.
ObservePoint ==
    pc \in { "rdy_exists", "rdy_size0", "rdy_sleep", "rdy_size", "classify",
             "skip", "open", "read" }

EnvVars == << variant, TARGET_FPS, start_index, frame_counter, current_index,
              now, start_time, next_frame_time, pc, last_size, attempt,
              samples, load_size, appsrc_q, pushed, emitted, custom_pts,
              increment_index, csv, csv_summary, lookups, redis, store, prev,
              probe, tick, last_tick, buffer_owner, late_ops, main, run,
              prev_run, flushed, foreign_access, boot >>

EnvCreate ==
    /\ run = 1
    /\ ObservePoint
    /\ env_ops < MaxEnvOps
    /\ current_index \in FileIdx
    /\ files[current_index] = Absent
    /\ \E s \in SizeSet : files' = [files EXCEPT ![current_index] = s]
    /\ env_ops' = env_ops + 1
    /\ UNCHANGED EnvVars

EnvRewrite ==
    /\ run = 1
    /\ ObservePoint
    /\ env_ops < MaxEnvOps
    /\ current_index \in FileIdx
    /\ files[current_index] # Absent
    /\ \E s \in SizeSet \ {files[current_index]} :
            files' = [files EXCEPT ![current_index] = s]
    /\ env_ops' = env_ops + 1
    /\ UNCHANGED EnvVars

EnvDelete ==
    /\ run = 1
    /\ ObservePoint
    /\ env_ops < MaxEnvOps
    /\ current_index \in FileIdx
    /\ files[current_index] # Absent
    /\ files' = [files EXCEPT ![current_index] = Absent]
    /\ env_ops' = env_ops + 1
    /\ UNCHANGED EnvVars

\* ------------------------------------------------------ the feeder thread

Config == << variant, TARGET_FPS, start_index, redis, store, start_time,
             main, run, prev_run, foreign_access, boot >>
\* the same for a step of the streaming thread
ProbeConfig == << variant, TARGET_FPS, start_index, redis, store, start_time,
                  main, run, prev_run, boot >>
Ticks == << tick, last_tick >>
Ownership == << buffer_owner, late_ops >>

\* the tick ends with outcome o
Outcome(o) == tick' = [tick EXCEPT !.outcome = o] /\ UNCHANGED last_tick

Directory == << files, env_ops >>
Pipeline == << appsrc_q, pushed, emitted, probe >>
Logs == << csv, csv_summary, lookups, prev, flushed >>
Counters == << frame_counter, current_index >>
ReadyLocals == << last_size, attempt, samples >>
Synthetic == << custom_pts, increment_index >>

\* expected_time = start_time + frame_counter * frame_duration
expected_time == start_time + frame_counter * frame_duration(TARGET_FPS)

\* a target counted from the files gone through, skipped ones included
TickTargetFromIndex ==
    start_time + (current_index - start_index) * frame_duration(TARGET_FPS)

\* the time the tick at the top of the loop waits for
TickTarget == IF variant = "main_cpp" THEN next_frame_time ELSE expected_time

\* a pacer that drops the frame of a tick that starts a whole interval late
PaceDropsLateFrames ==
    /\ pc = "pace"
    /\ now <= MaxNow
    /\ current_index \in FileIdx
    /\ IF variant = "main_cpp"
       THEN /\ IF now < next_frame_time
               THEN \E j \in JitterSet : now' = next_frame_time + j
               ELSE now' = now
            /\ next_frame_time' = next_frame_time + frame_duration(TARGET_FPS)
       ELSE /\ IF now < expected_time
               THEN \E j \in JitterSet : now' = expected_time + j
               ELSE now' = now
            /\ UNCHANGED next_frame_time
    /\ IF now >= TickTarget + frame_duration(TARGET_FPS)
       THEN current_index' = current_index + 1 /\ pc' = "pace"
       ELSE current_index' = current_index /\ pc' = "rdy_exists"
    /\ last_tick' = tick
    /\ tick' = [ target |-> TickTarget, counter |-> frame_counter,
                 index |-> current_index, outcome |-> "running",
                 stop_seen |-> main.pc # "loop" ]
    /\ UNCHANGED << Config, Directory, Pipeline, Logs, frame_counter,
                    ReadyLocals, Synthetic, load_size, Ownership >>

\* top of the loop: sleep until the target time of the tick
Pace ==
    /\ pc = "pace"
    /\ now <= MaxNow
    /\ current_index \in FileIdx
    /\ IF variant = "main_cpp"
       THEN /\ IF now < next_frame_time
               THEN \E j \in JitterSet : now' = next_frame_time + j
               ELSE now' = now
            /\ next_frame_time' = next_frame_time + frame_duration(TARGET_FPS)
       ELSE /\ IF now < expected_time
               THEN \E j \in JitterSet : now' = expected_time + j
               ELSE now' = now
            /\ UNCHANGED next_frame_time
    /\ pc' = "rdy_exists"
    /\ last_tick' = tick
    /\ tick' = [ target |-> TickTarget, counter |-> frame_counter,
                 index |-> current_index, outcome |-> "running",
                 stop_seen |-> main.pc # "loop" ]
    /\ UNCHANGED << Config, Directory, Pipeline, Logs, Counters, ReadyLocals,
                    Synthetic, load_size, Ownership >>

\* is_file_ready returned false: the feeder sleeps 100 ms and retries
NotReady ==
    /\ now' = now + RetryDelayMs * 1000
    /\ pc' = "pace"

\* is_file_ready: if (!fs::exists(path)) return false;
ReadyExists ==
    /\ pc = "rdy_exists"
    /\ IF Exists(current_index)
       THEN pc' = "rdy_size0" /\ now' = now /\ UNCHANGED Ticks
       ELSE NotReady /\ Outcome("not_ready")
    /\ UNCHANGED << Config, Directory, Pipeline, Logs, Counters, ReadyLocals,
                    Synthetic, load_size, next_frame_time, Ownership >>

\* is_file_ready: auto last_size = fs::file_size(path);
\* file_size throws when the file is gone; nothing catches it in the thread
ReadyFirstSize ==
    /\ pc = "rdy_size0"
    /\ IF Exists(current_index)
       THEN /\ last_size' = FileSizeOf(current_index)
            /\ samples' = << FileSizeOf(current_index) >>
            /\ attempt' = 0
            /\ pc' = "rdy_sleep"
       ELSE /\ pc' = "terminate_ready"
            /\ UNCHANGED ReadyLocals
    /\ UNCHANGED << Config, Directory, Pipeline, Logs, Counters, Synthetic,
                    load_size, next_frame_time, now, Ticks, Ownership >>

\* is_file_ready: loop head, sleep_for(delay_ms), second exists test
ReadySleep ==
    /\ pc = "rdy_sleep"
    /\ IF attempt < max_attempts
       THEN IF Exists(current_index)
            THEN /\ pc' = "rdy_size"
                 /\ now' = now + delay_ms * 1000
                 /\ UNCHANGED Ticks
            ELSE /\ now' = now + delay_ms * 1000 + RetryDelayMs * 1000
                 /\ pc' = "pace"
                 /\ Outcome("not_ready")
       ELSE NotReady /\ Outcome("not_ready")
    /\ UNCHANGED << Config, Directory, Pipeline, Logs, Counters, ReadyLocals,
                    Synthetic, load_size, next_frame_time, Ownership >>

\* where the feeder goes when is_file_ready returned true
AfterReady == IF variant = "part_000" THEN "classify" ELSE "open"

\* is_file_ready's verdict on a new sample
SizeStable(new_size, old_size) == new_size = old_size

\* is_file_ready: new_size = fs::file_size(path); compare; ++i
ReadySample ==
    /\ pc = "rdy_size"
    /\ IF Exists(current_index)
       THEN LET new_size == FileSizeOf(current_index) IN
            /\ samples' = Append(samples, new_size)
            /\ IF SizeStable(new_size, last_size)
               THEN pc' = AfterReady /\ UNCHANGED << last_size, attempt >>
               ELSE /\ last_size' = new_size
                    /\ attempt' = attempt + 1
                    /\ pc' = "rdy_sleep"
       ELSE /\ pc' = "terminate_ready"
            /\ UNCHANGED ReadyLocals
    /\ UNCHANGED << Config, Directory, Pipeline, Logs, Counters, Synthetic,
                    load_size, next_frame_time, now, Ticks, Ownership >>

\* a feeder without the keyframe filter: every ready file is loaded
ClassifyPassesAll ==
    /\ pc = "classify"
    /\ pc' = "open"
    /\ UNCHANGED << Config, Directory, Pipeline, Logs, Counters, ReadyLocals,
                    Synthetic, load_size, next_frame_time, now, Ticks,
                    Ownership >>

\* if (!is_iframe(fullpath)) ... else fall through to the load
Classify ==
    /\ pc = "classify"
    /\ pc' = IF is_iframe(FileSizeOf(current_index)) THEN "open" ELSE "skip"
    /\ UNCHANGED << Config, Directory, Pipeline, Logs, Counters, ReadyLocals,
                    Synthetic, load_size, next_frame_time, now, Ticks,
                    Ownership >>

\* a skip that also counts the file as an emitted frame
SkipCountsFrame ==
    /\ pc = "skip"
    /\ Exists(current_index)
    /\ current_index' = current_index + 1
    /\ frame_counter' = frame_counter + 1
    /\ pc' = "pace"
    /\ Outcome("skipped")
    /\ UNCHANGED << Config, Directory, Pipeline, Logs, ReadyLocals, Synthetic,
                    load_size, next_frame_time, now, Ownership >>

\* the skip branch: the message queries fs::file_size(fullpath) again (it
\* throws when the file is gone), then current_index++ and continue
Skip ==
    /\ pc = "skip"
    /\ IF Exists(current_index)
       THEN /\ current_index' = current_index + 1
            /\ pc' = "pace"
            /\ Outcome("skipped")
       ELSE pc' = "terminate_skip" /\ UNCHANGED << current_index, Ticks >>
    /\ UNCHANGED << Config, Directory, Pipeline, Logs, frame_counter,
                    ReadyLocals, Synthetic, load_size, next_frame_time, now,
                    Ownership >>

\* a failed open or read: part_000 sleeps and retries, main.cpp breaks
LoadFailed ==
    IF variant = "main_cpp"
    THEN pc' = "exit_load" /\ now' = now
    ELSE NotReady

\* an open that gives the file up when it fails and moves to the next index
OpenFailureSkips ==
    /\ pc = "open"
    /\ IF Exists(current_index)
       THEN /\ load_size' = FileSizeOf(current_index)
            /\ pc' = "read"
            /\ now' = now
            /\ UNCHANGED << Ticks, current_index >>
       ELSE /\ NotReady
            /\ Outcome("load_failed")
            /\ current_index' = current_index + 1
            /\ UNCHANGED load_size
    /\ UNCHANGED << Config, Directory, Pipeline, Logs, frame_counter,
                    ReadyLocals, Synthetic, next_frame_time, Ownership >>

\* std::ifstream ifs(fullpath, binary | ate); size = ifs.tellg();
Open ==
    /\ pc = "open"
    /\ IF Exists(current_index)
       THEN /\ load_size' = FileSizeOf(current_index)
            /\ pc' = "read"
            /\ now' = now
            /\ UNCHANGED Ticks
       ELSE LoadFailed /\ Outcome("load_failed") /\ UNCHANGED load_size
    /\ UNCHANGED << Config, Directory, Pipeline, Logs, Counters, ReadyLocals,
                    Synthetic, next_frame_time, Ownership >>

\* ifs.read(bufferdata.data(), size): fails when fewer than size bytes are
\* left in the file; an unlinked file stays readable through the open stream.
\* After a good read gst_buffer_new_allocate gives the feeder its buffer.
Read ==
    /\ pc = "read"
    /\ IF Exists(current_index) /\ FileSizeOf(current_index) < load_size
       THEN LoadFailed /\ Outcome("load_failed") /\ UNCHANGED buffer_owner
       ELSE /\ pc' = "push"
            /\ now' = now
            /\ buffer_owner' = "feeder"
            /\ UNCHANGED Ticks
    /\ UNCHANGED << Config, Directory, Pipeline, Logs, Counters, ReadyLocals,
                    Synthetic, load_size, next_frame_time, late_ops >>

\* the buffer feed_frames hands to gst_app_src_push_buffer
MakeBuffer ==
    IF variant = "part_000"
    THEN [ pts |-> GST_CLOCK_TIME_NONE, dts |-> GST_CLOCK_TIME_NONE,
           duration |-> GST_CLOCK_TIME_NONE, offset |-> current_index,
           size |-> load_size ]
    ELSE [ pts |-> BufferPts(frame_counter, TARGET_FPS),
           dts |-> BufferPts(frame_counter, TARGET_FPS),
           duration |-> BufferDuration(TARGET_FPS), offset |-> -1,
           size |-> load_size ]

\* gst_buffer_map fails: unref and break
MapFailed ==
    /\ pc = "push"
    /\ pc' = "exit_map"
    /\ buffer_owner' = "none"
    /\ Outcome("map_failed")
    /\ UNCHANGED << Config, Directory, Pipeline, Logs, Counters, ReadyLocals,
                    Synthetic, load_size, next_frame_time, now, late_ops >>

\* appsrc was created with do-timestamp=TRUE in part_000: a buffer pushed
\* without a timestamp is stamped with the running time of the pipeline clock
\* when appsrc queues it.  main.cpp leaves do-timestamp off.
DoTimestamp(b) ==
    IF variant = "part_000" /\ b.pts = GST_CLOCK_TIME_NONE
    THEN [ b EXCEPT !.pts = now * 1000, !.dts = now * 1000 ]
    ELSE b

\* gst_app_src_push_buffer returned GST_FLOW_OK
PushAccepted ==
    /\ pc = "push"
    /\ Len(appsrc_q) + (IF probe.busy THEN 1 ELSE 0) < MaxInFlight
    /\ pushed' = Append(pushed, MakeBuffer)
    /\ emitted' = Append(emitted, DoTimestamp(MakeBuffer))
    /\ appsrc_q' = IF variant = "part_000"
                   THEN Append(appsrc_q, DoTimestamp(MakeBuffer))
                   ELSE appsrc_q
    /\ pc' = "advance"
    /\ buffer_owner' = "pipeline"
    /\ UNCHANGED << Config, Directory, probe, Logs, Counters,
                    ReadyLocals, Synthetic, load_size, next_frame_time, now,
                    Ticks, late_ops >>

\* a rejected push after which the loop goes on
PushRejectedRetries ==
    /\ pc = "push"
    /\ buffer_owner' = "pipeline"
    /\ pc' = "pace"
    /\ Outcome("push_rejected")
    /\ UNCHANGED << Config, Directory, Pipeline, Logs, Counters, ReadyLocals,
                    Synthetic, load_size, next_frame_time, now, late_ops >>

\* gst_app_src_push_buffer returned something else.  The call takes the
\* reference whatever it returns, so the gst_buffer_unref that follows
\* releases a reference the feeder no longer holds: the build either gets
\* away with it and breaks out of the loop, or the process dies in the unref.
PushRejected ==
    /\ pc = "push"
    /\ buffer_owner' = "pipeline"
    /\ late_ops' = late_ops \cup { "gst_buffer_unref" }
    /\ pc' \in { "exit_push", "terminate_push" }
    /\ Outcome("push_rejected")
    /\ UNCHANGED << Config, Directory, Pipeline, Logs, Counters, ReadyLocals,
                    Synthetic, load_size, next_frame_time, now >>

\* the row main.cpp writes for the frame it just pushed
MainRow == [ frame_index |-> frame_counter, pts_90k |-> custom_pts,
             fname |-> make_frame_filename(current_index) ]

\* an advance that leaves the file index where it was
AdvanceWithoutIndex ==
    /\ pc = "advance"
    /\ frame_counter' = frame_counter + 1
    /\ pc' = "pace"
    /\ buffer_owner' = "none"
    /\ Outcome("emitted")
    /\ UNCHANGED << Config, Directory, Pipeline, Logs, current_index,
                    ReadyLocals, Synthetic, load_size, next_frame_time, now,
                    late_ops >>

\* after a successful push: main.cpp logs and advances the synthetic PTS;
\* every build then does frame_counter++ and current_index++
Advance ==
    /\ pc = "advance"
    /\ IF variant = "main_cpp"
       THEN /\ csv' = Append(csv, MainRow)
            /\ custom_pts' = custom_pts + increments[increment_index + 1]
            /\ increment_index' = (increment_index + 1) % Len(increments)
       ELSE UNCHANGED << csv, Synthetic >>
    /\ frame_counter' = frame_counter + 1
    /\ current_index' = current_index + 1
    /\ pc' = "pace"
    /\ buffer_owner' = "none"
    /\ Outcome("emitted")
    /\ UNCHANGED << Config, Directory, Pipeline, csv_summary, lookups, prev,
                    flushed, ReadyLocals, load_size, next_frame_time, now,
                    late_ops >>

\* ---------------------------------------------- the streaming thread

\* The streaming thread runs beside the feeder.  Of the feeder's variables
\* video_probe reads frame_counter only, and only Advance changes it: a probe
\* step taken between two other feeder steps cannot be told from the same
\* step taken at the nearest end of the tick.  The probe steps are therefore
\* taken while the feeder is in the push call, just before Advance, at the
\* top of the loop, or once the feeder thread has stopped.
ProbePoint == pc \notin { "rdy_exists", "rdy_size0", "rdy_sleep", "rdy_size",
                          "classify", "skip", "open", "read" }

\* std::terminate has not run: an exception that leaves the thread function
\* (or a crash in the feeder) ends the whole process, every thread with it
ProcessAlive ==
    pc \notin { "terminate_ready", "terminate_skip", "terminate_push" }

\* the pipeline has not been set to GST_STATE_NULL
PipelineUp == main.pc \notin { "null", "exited" }

\* video_probe, first half: the buffer reaches the src pad of h265parse, the
\* probe reads frame_counter for the file name and issues the GET
ProbeLookup ==
    /\ variant = "part_000"
    /\ ProbePoint
    /\ ProcessAlive
    /\ PipelineUp
    /\ ~probe.busy
    /\ appsrc_q # << >>
    /\ LET fname == make_frame_filename(frame_counter) IN
       /\ probe' = [ busy |-> TRUE, buffer |-> Head(appsrc_q),
                     fname |-> fname,
                     meta |-> MetaOf(redis, RedisGet(store, redis_key(fname))),
                     awaiting |-> FALSE ]
       /\ lookups' = IF redis THEN Append(lookups, redis_key(fname))
                     ELSE lookups
    /\ appsrc_q' = Tail(appsrc_q)
    /\ foreign_access' = foreign_access \cup { "frame_counter" }
    /\ UNCHANGED << ProbeConfig, Directory, pushed, emitted, csv, csv_summary,
                    prev,
                    flushed,
                    Counters, ReadyLocals, Synthetic, load_size,
                    next_frame_time, now, pc, Ticks, Ownership >>

\* video_probe, first half, with a store that keeps the connection open and
\* sends nothing: redisCommand has written the GET and sits in the blocking
\* read of the reply.  No timeout is set on the context, and nothing else
\* in the program touches it.
ProbeLookupUnanswered ==
    /\ variant = "part_000"
    /\ ProbePoint
    /\ ProcessAlive
    /\ PipelineUp
    /\ ~probe.busy
    /\ appsrc_q # << >>
    /\ redis
    /\ LET fname == make_frame_filename(frame_counter) IN
       /\ probe' = [ busy |-> TRUE, buffer |-> Head(appsrc_q),
                     fname |-> fname, meta |-> MetaDefaults,
                     awaiting |-> TRUE ]
       /\ lookups' = Append(lookups, redis_key(fname))
    /\ appsrc_q' = Tail(appsrc_q)
    /\ foreign_access' = foreign_access \cup { "frame_counter" }
    /\ UNCHANGED << ProbeConfig, Directory, pushed, emitted, csv, csv_summary,
                    prev,
                    flushed,
                    Counters, ReadyLocals, Synthetic, load_size,
                    next_frame_time, now, pc, Ticks, Ownership >>

\* pts_90k = gst_util_uint64_scale(pts, 90000, GST_SECOND)
Pts90k(pts) == gst_util_uint64_scale(pts, 90000, GST_SECOND)

\* the primary-log row of video_probe; the PTS column reads NA (here
\* GST_CLOCK_TIME_NONE) when the buffer has no PTS
ProbeRow(pts, fname, meta) ==
    [ frame_index |-> frame_counter,
      pts_90k |-> IF pts # GST_CLOCK_TIME_NONE THEN Pts90k(pts)
                  ELSE GST_CLOCK_TIME_NONE,
      fname |-> fname, ball |-> meta.ball, frame_name |-> meta.frame_name,
      innings |-> meta.innings, isStart |-> meta.isStart,
      matchID |-> meta.matchID, over |-> meta.over,
      ptp_timestamp |-> meta.ptp_timestamp, received_at |-> meta.received_at ]

\* the summary-log row of video_probe
SummaryRow(pts, meta) ==
    [ frame_index |-> frame_counter, pts_90k |-> Pts90k(pts),
      over |-> meta.over, ball |-> meta.ball, innings |-> meta.innings,
      matchID |-> meta.matchID ]

\* ball != prev_ball || over != prev_over || innings != prev_innings
TripleChanged(meta) ==
    meta.ball # prev.ball \/ meta.over # prev.over \/ meta.innings # prev.innings

\* a probe that never updates prev_ball, prev_over, prev_innings
ProbeLogKeepsPrev ==
    /\ ProbePoint
    /\ ProcessAlive
    /\ PipelineUp
    /\ probe.busy
    /\ ~probe.awaiting
    /\ LET pts == probe.buffer.pts
           meta == probe.meta
       IN  /\ csv' = Append(csv, ProbeRow(pts, probe.fname, meta))
           /\ csv_summary' =
                 IF pts # GST_CLOCK_TIME_NONE /\ TripleChanged(meta)
                 THEN Append(csv_summary, SummaryRow(pts, meta))
                 ELSE csv_summary
           /\ prev' = prev
    /\ flushed' = [ csv |-> Len(csv'), summary |-> Len(csv_summary') ]
    /\ probe' = ProbeIdle
    /\ foreign_access' = foreign_access \cup { "frame_counter", "prev" }
    /\ UNCHANGED << ProbeConfig, Directory, appsrc_q, pushed, emitted, lookups,
                    Counters,
                    ReadyLocals, Synthetic, load_size, next_frame_time, now,
                    pc, Ticks, Ownership >>

\* video_probe, second half: frame_counter is read again for the rows
ProbeLog ==
    /\ ProbePoint
    /\ ProcessAlive
    /\ PipelineUp
    /\ probe.busy
    /\ ~probe.awaiting
    /\ LET pts == probe.buffer.pts
           meta == probe.meta
       IN  /\ csv' = Append(csv, ProbeRow(pts, probe.fname, meta))
           /\ csv_summary' =
                 IF pts # GST_CLOCK_TIME_NONE /\ TripleChanged(meta)
                 THEN Append(csv_summary, SummaryRow(pts, meta))
                 ELSE csv_summary
           /\ prev' = [ ball |-> meta.ball, over |-> meta.over,
                        innings |-> meta.innings ]
    /\ flushed' = [ csv |-> Len(csv'), summary |-> Len(csv_summary') ]
    /\ probe' = ProbeIdle
    /\ foreign_access' = foreign_access \cup { "frame_counter", "prev" }
    /\ UNCHANGED << ProbeConfig, Directory, appsrc_q, pushed, emitted, lookups,
                    Counters,
                    ReadyLocals, Synthetic, load_size, next_frame_time, now,
                    pc, Ticks, Ownership >>

\* ------------------------------------------------------ the main thread

\* feed_frames has returned (a break out of the loop)
FeederDone == pc \in { "exit_load", "exit_map", "exit_push" }

\* The feeder reads nothing the main thread writes.  A bus message handled
\* while the feeder is inside a tick is the same message handled when the
\* feeder is next at the top of its loop, so the messages are delivered
\* there or once the feeder has returned.
MainPoint == pc = "pace" \/ FeederDone

MainVars == << variant, TARGET_FPS, start_index, redis, store, start_time,
              run, prev_run, foreign_access, boot, Directory, Pipeline, csv, csv_summary, lookups,
              prev, Counters,
              ReadyLocals, Synthetic, load_size, next_frame_time, now, pc,
              Ticks, Ownership >>

\* bus_call, GST_MESSAGE_ERROR: g_main_loop_quit(loop)
BusError ==
    /\ ProcessAlive
    /\ MainPoint
    /\ main.pc = "loop"
    /\ main' = [ pc |-> "joining", quit_by |-> "error", last_msg |-> "error" ]
    /\ UNCHANGED << MainVars, flushed >>

\* bus_call, GST_MESSAGE_EOS: g_main_loop_quit(loop)
BusEos ==
    /\ ProcessAlive
    /\ MainPoint
    /\ main.pc = "loop"
    /\ main' = [ pc |-> "joining", quit_by |-> "eos", last_msg |-> "eos" ]
    /\ UNCHANGED << MainVars, flushed >>

\* the message types bus_call has no case for
OtherMessages == { "state_changed", "warning" }

\* a bus_call whose default case quits the main loop as well
BusOtherQuits ==
    /\ ProcessAlive
    /\ MainPoint
    /\ main.pc = "loop"
    /\ \E m \in OtherMessages :
          main' = [ pc |-> "joining", quit_by |-> m, last_msg |-> m ]
    /\ UNCHANGED << MainVars, flushed >>

\* bus_call, default: break; the watch stays installed (return TRUE)
BusOther ==
    /\ ProcessAlive
    /\ MainPoint
    /\ main.pc = "loop"
    /\ \E m \in OtherMessages : main' = [ main EXCEPT !.last_msg = m ]
    /\ UNCHANGED << MainVars, flushed >>

\* a join that returns without waiting for the feeder
JoinWithoutWaiting ==
    /\ ProcessAlive
    /\ main.pc = "joining"
    /\ main' = [ main EXCEPT !.pc = "joined" ]
    /\ UNCHANGED << MainVars, flushed >>

\* main: feeder.join() returns once feed_frames has returned
Join ==
    /\ ProcessAlive
    /\ main.pc = "joining"
    /\ FeederDone
    /\ main' = [ main EXCEPT !.pc = "joined" ]
    /\ UNCHANGED << MainVars, flushed >>

\* main: gst_element_set_state(pipeline, GST_STATE_NULL); unref
Teardown ==
    /\ ProcessAlive
    /\ main.pc = "joined"
    /\ main' = [ main EXCEPT !.pc = "null" ]
    /\ UNCHANGED << MainVars, flushed >>

\* main: the logs are closed (which writes what the streams still hold),
\* redisFree, gst_deinit, return 0
Exit ==
    /\ ProcessAlive
    /\ main.pc = "null"
    /\ main' = [ main EXCEPT !.pc = "exited" ]
    /\ flushed' = [ csv |-> Len(csv), summary |-> Len(csv_summary) ]
    /\ UNCHANGED MainVars

\* A tick of main.cpp in which the file is ready and loads and appsrc takes
\* the buffer: the timestamps are attached from frame_counter, the row is
\* written, the counters advance.
AllocTick ==
    /\ frame_counter < MaxAllocFrames
    /\ pushed' = Append(pushed, MakeBuffer)
    /\ emitted' = Append(emitted, DoTimestamp(MakeBuffer))
    /\ csv' = Append(csv, MainRow)
    /\ custom_pts' = custom_pts + increments[increment_index + 1]
    /\ increment_index' = (increment_index + 1) % Len(increments)
    /\ frame_counter' = frame_counter + 1
    /\ current_index' = current_index + 1
    /\ UNCHANGED << Config, Directory, appsrc_q, probe, csv_summary, lookups,
                    flushed,
                    prev, ReadyLocals, load_size, next_frame_time, now, pc,
                    Ticks, Ownership >>

\* the feeder has gone through the directory and the pipeline has drained
RunComplete ==
    /\ pc = "pace"
    /\ current_index \notin FileIdx
    /\ appsrc_q = << >>
    /\ ~probe.busy

AttachedPts == [ i \in 1 .. Len(emitted) |-> emitted[i].pts ]
LoggedPts == [ i \in 1 .. Len(csv) |-> csv[i].pts_90k ]

\* The program is stopped and started again with the same arguments on the
\* directory the producer has left untouched: main sets the globals anew,
\* the statics start from their initialisers; what the first run attached
\* and logged is kept for comparison.
Restart ==
    /\ run = 1
    /\ env_ops = 0
    /\ RunComplete
    /\ run' = 2
    /\ prev_run' = [ attached |-> AttachedPts, logged |-> LoggedPts ]
    /\ frame_counter' = 0
    /\ current_index' = start_index
    /\ now' = 0
    /\ next_frame_time' = 0
    /\ pc' = "pace"
    /\ last_size' = 0
    /\ attempt' = 0
    /\ samples' = << >>
    /\ load_size' = 0
    /\ appsrc_q' = << >>
    /\ pushed' = << >>
    /\ emitted' = << >>
    /\ custom_pts' = CustomPtsBase
    /\ increment_index' = 0
    /\ csv' = << >>
    /\ csv_summary' = << >>
    /\ flushed' = NoRows
    /\ foreign_access' = {}
    /\ lookups' = << >>
    /\ prev' = [ ball |-> << "0" >>, over |-> << "0" >>, innings |-> << "0" >> ]
    /\ probe' = ProbeIdle
    /\ tick' = NoTick
    /\ last_tick' = NoTick
    /\ buffer_owner' = "none"
    /\ late_ops' = {}
    /\ main' = MainLoop
    /\ UNCHANGED << variant, TARGET_FPS, start_index, redis, store, start_time,
                    Directory, boot >>

Next ==
    \/ Pace
    \/ ReadyExists
    \/ ReadyFirstSize
    \/ ReadySleep
    \/ ReadySample
    \/ Classify
    \/ Skip
    \/ Open
    \/ Read
    \/ MapFailed
    \/ PushAccepted
    \/ PushRejected
    \/ Advance
    \/ ProbeLookup
    \/ ProbeLog
    \/ EnvCreate
    \/ EnvRewrite
    \/ EnvDelete

Spec == Init /\ [][Next]_vars

\* The program with the bus messages that end the main loop and the
\* shutdown that follows, at one frame rate and without the store.
InitShutdown ==
    /\ Init
    /\ TARGET_FPS = 300
    /\ ~redis

\* what the main thread does on its own once the loop has quit
MainProceeds == Join \/ Teardown \/ Exit

NextShutdown == Next \/ BusError \/ BusEos \/ MainProceeds

ShutdownStep == [][NextShutdown]_vars

SpecShutdown == InitShutdown /\ [][NextShutdown]_vars

\* The program with every kind of bus message, up to the moment the main
\* loop quits.
NextBus == Next \/ BusError \/ BusEos \/ BusOther

SpecBus == InitShutdown /\ [][NextBus]_vars

\* The same program with its threads scheduled: the feeder and streaming
\* threads keep taking steps while they can, and so does the main thread
\* once its loop has quit.  Bus messages and producer steps are events
\* that need not happen.
SpecShutdownFair ==
    /\ InitShutdown
    /\ ShutdownStep
    /\ WF_vars(Next)
    /\ WF_vars(MainProceeds)

\* The program run twice on the same directory.
NextTwoRuns == Next \/ Restart

SpecTwoRuns == Init /\ [][NextTwoRuns]_vars

\* The timestamp allocation of main.cpp over a long run of frames, for the
\* frame rates of AllocFpsSet.
InitAlloc ==
    /\ variant = "main_cpp"
    /\ TARGET_FPS \in AllocFpsSet
    /\ start_index \in StartIndexSet
    /\ frame_counter = 0
    /\ current_index = start_index
    /\ now = 0
    /\ start_time = 0
    /\ next_frame_time = 0
    /\ pc = "push"
    /\ last_size = IFRAME_MIN_SIZE
    /\ attempt = 0
    /\ samples = << IFRAME_MIN_SIZE, IFRAME_MIN_SIZE >>
    /\ load_size = IFRAME_MIN_SIZE
    /\ files = [ i \in FileIdx |-> IFRAME_MIN_SIZE ]
    /\ env_ops = 0
    /\ appsrc_q = << >>
    /\ pushed = << >>
    /\ emitted = << >>
    /\ custom_pts = CustomPtsBase
    /\ increment_index = 0
    /\ csv = << >>
    /\ csv_summary = << >>
    /\ flushed = NoRows
    /\ foreign_access = {}
    /\ boot = Constructed(variant)
    /\ lookups = << >>
    /\ redis = FALSE
    /\ store = EmptyStore
    /\ prev = [ ball |-> << "0" >>, over |-> << "0" >>, innings |-> << "0" >> ]
    /\ probe = ProbeIdle
    /\ tick = NoTick
    /\ last_tick = NoTick
    /\ buffer_owner = "none"
    /\ late_ops = {}
    /\ main = MainLoop
    /\ run = 1
    /\ prev_run = NoRun

NextAlloc == AllocTick

SpecAlloc == InitAlloc /\ [][NextAlloc]_vars

\* ------------------------------------------------------------------ C1
\* C1 as written: the PTS attached to frame n+1 minus the PTS attached to
\* frame n equals the attached duration, for every n and every frame rate.
C1_Original ==
    \A i \in 1 .. (Len(emitted) - 1) :
        emitted[i + 1].pts - emitted[i].pts = emitted[i].duration

\* C1 amended: the difference of successive attached PTS is the attached
\* duration or the duration plus one nanosecond, and it is the duration
\* exactly whenever the frame rate divides 1e9.
C1_Amended ==
    \A i \in 1 .. (Len(emitted) - 1) :
        LET diff == emitted[i + 1].pts - emitted[i].pts IN
        /\ diff \in { emitted[i].duration, emitted[i].duration + 1 }
        /\ (GST_SECOND % TARGET_FPS = 0 => diff = emitted[i].duration)

\* a run in which some difference is duration + 1 and a frame rate that
\* does not divide 1e9 has attached at least four timestamps
C1_Witness ==
    /\ Len(emitted) >= 4
    /\ GST_SECOND % TARGET_FPS # 0
    /\ \E i \in 1 .. (Len(emitted) - 1) :
          emitted[i + 1].pts - emitted[i].pts = emitted[i].duration + 1

\* ------------------------------------------------------------------ C2
\* C2: the PTS of successively emitted buffers is strictly increasing and
\* the PTS of the buffer of frame n is the function n * 1e9 / F of the
\* frame counter and the frame rate, with no input from the clock.
C2_PtsFromCounter ==
    \A i \in 1 .. Len(emitted) :
        /\ emitted[i].pts = BufferPts(i - 1, TARGET_FPS)
        /\ (i > 1 => emitted[i].pts > emitted[i - 1].pts)

\* ------------------------------------------------------------------ C3
\* C3: a second run with the same start index, frame rate and directory
\* attaches and logs the PTS sequence of the first run.
C3_SameRuns ==
    (run = 2 /\ RunComplete) =>
        (AttachedPts = prev_run.attached /\ LoggedPts = prev_run.logged)

\* ------------------------------------------------------------------ C4
\* the nearest 90 kHz tick to a nanosecond timestamp
Round90k(p) ==
    (p \div 100000) * 9 + ((p % 100000) * 9 + 50000) \div 100000

\* C4: the 90 kHz value video_probe writes for a buffer is the nearest tick
\* to the buffer's PTS in nanoseconds, not the truncation.
C4_Rounded ==
    variant = "part_000" =>
        \A i \in 1 .. Len(csv) :
            csv[i].pts_90k = Round90k(emitted[i].pts)

\* ------------------------------------------------------------------ C5
\* C5: the frame whose counter is k * F carries PTS k * 1e9 ns and is
\* logged with k * 90000 ticks; frame 0 carries 0 ns and 0 ticks.
C5_WholeSeconds ==
    \A i \in 1 .. Len(emitted) :
        (i - 1) % TARGET_FPS = 0 =>
            /\ emitted[i].pts = ((i - 1) \div TARGET_FPS) * GST_SECOND
            /\ (i <= Len(csv) =>
                    csv[i].pts_90k = ((i - 1) \div TARGET_FPS) * 90000)

\* ------------------------------------------------------------------ C6
\* C6: frame_counter and current_index never decrease in a step of the
\* program, and in every state current_index - start_index >= frame_counter.
C6_Monotone ==
    /\ [](current_index - start_index >= frame_counter)
    /\ [][ /\ frame_counter' >= frame_counter
           /\ current_index' >= current_index ]_vars

\* a frame was emitted and another file was skipped
C6_Witness ==
    /\ frame_counter >= 1
    /\ current_index - start_index > frame_counter

\* ------------------------------------------------------------------ C7
\* the feeder is between the top of a tick and the end of its skip branch
InSkipPath ==
    pc \in { "rdy_exists", "rdy_size0", "rdy_sleep", "rdy_size", "classify",
             "skip" }

C8_OneRowPerBuffer ==
    /\ Len(csv) <= Len(emitted)
    /\ \A i \in 1 .. Len(csv) : csv[i].frame_index = i - 1
    /\ ((pc = "pace" /\ appsrc_q = << >> /\ ~probe.busy)
            => Len(csv) = Len(emitted))

\* ------------------------------------------------------------------ C9
\* is_file_ready has just returned true
ReturnedReady == pc \in { "classify", "open" }

\* C9: when is_file_ready returns ready although two successive samples
\* differed, all max_attempts probes were taken and the size did not change
\* again after the last change.
C9_FullWindow ==
    ReturnedReady =>
        \A i \in 1 .. (Len(samples) - 1) :
            samples[i] # samples[i + 1] =>
                /\ Len(samples) = max_attempts + 1
                /\ \A j \in (i + 1) .. (Len(samples) - 1) :
                        samples[j] = samples[j + 1]

\* ----------------------------------------------------------------- C10
\* C10: a file deleted during the readiness check makes is_file_ready
\* return false; the check never ends in an uncaught filesystem error.
C10_NoError == pc # "terminate_ready"

\* ------------------------------------------------------------------------
\* The pacing of a long run of ticks that all emit: the file is there and
\* stable (one sleep of delay_ms in is_file_ready), the load and the push
\* succeed.  What is pushed is the subject of AllocTick; here only the
\* clock of the loop is followed.
InitPace ==
    /\ variant \in Variants
    /\ TARGET_FPS \in AllocFpsSet
    /\ start_index \in StartIndexSet
    /\ frame_counter = 0
    /\ current_index = start_index
    /\ now = 0
    /\ start_time = 0
    /\ next_frame_time = 0
    /\ pc = "pace"
    /\ last_size = 0
    /\ attempt = 0
    /\ samples = << >>
    /\ load_size = 0
    /\ files = [ i \in FileIdx |-> IFRAME_MIN_SIZE ]
    /\ env_ops = 0
    /\ appsrc_q = << >>
    /\ pushed = << >>
    /\ emitted = << >>
    /\ custom_pts = CustomPtsBase
    /\ increment_index = 0
    /\ csv = << >>
    /\ csv_summary = << >>
    /\ flushed = NoRows
    /\ foreign_access = {}
    /\ boot = Constructed(variant)
    /\ lookups = << >>
    /\ redis = FALSE
    /\ store = EmptyStore
    /\ prev = [ ball |-> << "0" >>, over |-> << "0" >>, innings |-> << "0" >> ]
    /\ probe = ProbeIdle
    /\ tick = NoTick
    /\ last_tick = NoTick
    /\ buffer_owner = "none"
    /\ late_ops = {}
    /\ main = MainLoop
    /\ run = 1
    /\ prev_run = NoRun

PaceTick ==
    /\ frame_counter < MaxAllocFrames
    /\ now' = (IF now < TickTarget THEN TickTarget ELSE now) + delay_ms * 1000
    /\ next_frame_time' = IF variant = "main_cpp"
                          THEN next_frame_time + frame_duration(TARGET_FPS)
                          ELSE next_frame_time
    /\ last_tick' = tick
    /\ tick' = [ target |-> TickTarget, counter |-> frame_counter,
                 index |-> current_index, outcome |-> "emitted",
                 stop_seen |-> FALSE ]
    /\ frame_counter' = frame_counter + 1
    /\ current_index' = current_index + 1
    /\ UNCHANGED << Config, Directory, Pipeline, Logs, ReadyLocals, Synthetic,
                    load_size, pc, Ownership >>

NextPace == PaceTick

SpecPace == InitPace /\ [][NextPace]_vars

\* ----------------------------------------------------------------- C11
\* C11: the tick that follows a not-ready tick is for the same index, with
\* the same frame_counter and the same target emission time.
C11_RetrySameTick ==
    last_tick.outcome = "not_ready" =>
        /\ tick.index = last_tick.index
        /\ tick.counter = last_tick.counter
        /\ tick.target = last_tick.target

\* ----------------------------------------------------------------- C12
\* C12: a failed open or read of a file that passed the readiness check
\* ends the feeder loop.
C12_LoadFailureFatal ==
    tick.outcome = "load_failed" => pc = "exit_load"

\* ----------------------------------------------------------------- C13
\* C13: after a failed open or read the counters are those of the start of
\* the tick, no buffer was pushed in the tick, no lookup and no row exists
\* beyond those of the frames emitted before, and the next tick, if there
\* is one, is for the same index and the same frame_counter.
C13_FailedLoadKeepsIndex ==
    /\ tick.outcome = "load_failed" =>
          /\ frame_counter = tick.counter
          /\ current_index = tick.index
          /\ Len(pushed) = tick.counter
          /\ Len(lookups) <= tick.counter
          /\ Len(csv) <= tick.counter
    /\ last_tick.outcome = "load_failed" =>
          /\ tick.index = last_tick.index
          /\ tick.counter = last_tick.counter

\* the load failed and the feeder is in its next attempt
C13_Witness ==
    /\ last_tick.outcome = "load_failed"
    /\ tick.outcome = "running"
    /\ pc = "rdy_exists"

\* ----------------------------------------------------------------- C14
\* C14: after a rejected push the feeder is out of its loop, the counters
\* are those of the start of the tick and the accepted buffers are those of
\* the frames emitted before.
C14_RejectedPushEndsLoop ==
    tick.outcome = "push_rejected" =>
        /\ pc \in { "exit_push", "terminate_push" }
        /\ frame_counter = tick.counter
        /\ current_index = tick.index
        /\ Len(pushed) = tick.counter

\* a push was rejected after an earlier one had been accepted
C14_Witness ==
    /\ tick.outcome = "push_rejected"
    /\ frame_counter >= 1

\* ----------------------------------------------------------------- C15
\* C15: the feeder does nothing to a buffer after the push call, accepted
\* or rejected.
C15_NoUseAfterHandoff == late_ops = {}

\* ----------------------------------------------------------------- C16
\* C16: the target time of tick n is start_time + n / F, to within one
\* microsecond (the resolution of the interval), whatever n is.
C16_TargetFromAnchor ==
    tick.outcome # "none" =>
        LET d == tick.target - start_time
            n == tick.counter
        IN  /\ d * TARGET_FPS <= n * 1000000 + TARGET_FPS
            /\ d * TARGET_FPS >= n * 1000000 - TARGET_FPS

\* ----------------------------------------------------------------- C17
\* C17: current_index changes by +1 only, and only in the step that ends an
\* emitting tick or in the skip of a file classified as non-keyframe; no
\* other step, the pacing of a late tick included, changes it.
C17_InOrder ==
    [][ current_index' # current_index =>
          /\ current_index' = current_index + 1
          /\ \/ pc = "skip"
             \/ /\ pc = "advance"
                /\ Len(pushed) = frame_counter + 1
                /\ tick.index = current_index ]_vars

\* a tick that starts more than one frame interval after its target time,
\* for the index that follows the one just emitted
C17_Witness ==
    /\ tick.outcome = "running"
    /\ pc = "rdy_exists"
    /\ now >= tick.target + frame_duration(TARGET_FPS)
    /\ last_tick.outcome = "emitted"
    /\ tick.index = last_tick.index + 1
    /\ current_index = tick.index

\* ----------------------------------------------------------------- C18
\* C18: once the main loop has quit on a bus error or end of stream, the
\* feeder starts no further tick.
C18_StopsAtTickBoundary == ~tick.stop_seen

\* ----------------------------------------------------------------- C19
\* C19: when main is past feeder.join(), in teardown or after it, the
\* feeder has returned, and no step from then on pushes a buffer.
C19_JoinBeforeTeardown ==
    /\ [](main.pc \in { "joined", "null", "exited" } => FeederDone)
    /\ [][ main.pc \in { "joined", "null", "exited" } => pushed' = pushed ]_vars

\* main has torn the pipeline down and returned after the feeder had
\* emitted a frame
C19_Witness ==
    /\ main.pc = "exited"
    /\ FeederDone
    /\ Len(pushed) >= 1

\* ----------------------------------------------------------------- C20
\* C20: when the feeder has ended on a fatal condition, the process
\* eventually stops the pipeline, closes the logs and exits.
C20_FeederEndStopsProcess == FeederDone ~> (main.pc = "exited")

\* ----------------------------------------------------------------- C21
\* C21: the file name of the i-th row of the primary log, and the key of
\* the i-th lookup, are those of the file the i-th emitted buffer was
\* loaded from.
C21_KeyFromFileIndex ==
    variant = "part_000" =>
        /\ \A i \in 1 .. Len(csv) :
              csv[i].fname = make_frame_filename(pushed[i].offset)
        /\ redis =>
              \A i \in 1 .. Len(lookups) :
                 lookups[i] = redis_key(make_frame_filename(pushed[i].offset))

\* ----------------------------------------------------------------- C22
\* the eight metadata columns of a primary-log row
MetaColumns == { "ball", "frame_name", "innings", "isStart", "matchID",
                 "over", "ptp_timestamp", "received_at" }

\* C22: a row whose lookup returned no value (no connection, or no string
\* under the key) holds the sentinel in each of the eight metadata columns.
C22_AllSentinel ==
    variant = "part_000" =>
        \A i \in 1 .. Len(csv) :
           (~redis \/ lookups[i] \notin DOMAIN store) =>
               \A c \in MetaColumns : csv[i][c] = S_NA

\* ------------------------------------------------------------------------
\* The field extraction of video_probe on records of every shape: each of
\* three labels is absent, has a quoted value, has a bare value, or has a
\* quoted value whose closing quote is missing.
FieldForms == { "absent", "quoted", "bare", "open" }
RecordFields == << "ball", "over", "frame_name" >>
FieldLabel(f) == CASE f = "ball" -> S_ball
                   [] f = "over" -> S_over
                   [] f = "frame_name" -> S_frame_name
FieldValue(f) == CASE f = "ball" -> << "2" >>
                   [] f = "over" -> << "4" >>
                   [] f = "frame_name" -> << "f", "7" >>

\* the text of one field of a record
FieldText(f, form) ==
    LET label == << Q >> \o FieldLabel(f) \o << Q, ":" >> IN
    CASE form = "absent" -> << >>
      [] form = "quoted" -> label \o << Q >> \o FieldValue(f) \o << Q >>
      [] form = "bare" -> label \o FieldValue(f)
      [] form = "open" -> label \o << Q >> \o FieldValue(f)

RECURSIVE JoinComma(_)
JoinComma(parts) ==
    IF parts = << >> THEN << >>
    ELSE IF Len(parts) = 1 THEN parts[1]
    ELSE parts[1] \o << "," >> \o JoinComma(Tail(parts))

\* the record the store holds for a choice of forms
RecordOf(forms) ==
    LET texts == [ k \in 1 .. Len(RecordFields) |->
                     FieldText(RecordFields[k], forms[RecordFields[k]]) ]
        present == SelectSeq(texts, LAMBDA t : t # << >>)
    IN  << "{" >> \o JoinComma(present) \o << "}" >>

FormChoices == [ { RecordFields[k] : k \in 1 .. Len(RecordFields) } -> FieldForms ]

InitExtract ==
    /\ variant = "part_000"
    /\ TARGET_FPS \in FpsSet
    /\ start_index \in StartIndexSet
    /\ frame_counter = 0
    /\ current_index = start_index
    /\ now = 0
    /\ start_time = 0
    /\ next_frame_time = 0
    /\ pc = "pace"
    /\ last_size = 0
    /\ attempt = 0
    /\ samples = << >>
    /\ load_size = 0
    /\ files = [ i \in FileIdx |-> IFRAME_MIN_SIZE ]
    /\ env_ops = 0
    /\ appsrc_q = << >>
    /\ pushed = << >>
    /\ emitted = << >>
    /\ custom_pts = CustomPtsBase
    /\ increment_index = 0
    /\ csv = << >>
    /\ csv_summary = << >>
    /\ flushed = NoRows
    /\ foreign_access = {}
    /\ boot = Constructed(variant)
    /\ lookups = << >>
    /\ redis = TRUE
    /\ store \in { [ k \in { StoreKey(0) } |-> RecordOf(forms) ] :
                     forms \in FormChoices }
    /\ prev = [ ball |-> << "0" >>, over |-> << "0" >>, innings |-> << "0" >> ]
    /\ probe = ProbeIdle
    /\ tick = NoTick
    /\ last_tick = NoTick
    /\ buffer_owner = "none"
    /\ late_ops = {}
    /\ main = MainLoop
    /\ run = 1
    /\ prev_run = NoRun

\* video_probe on the first buffer, from the GET to the row
ProbeRecord ==
    /\ csv = << >>
    /\ LET fname == make_frame_filename(frame_counter)
           meta == MetaOf(redis, RedisGet(store, redis_key(fname)))
       IN  /\ lookups' = Append(lookups, redis_key(fname))
           /\ csv' = Append(csv, ProbeRow(0, fname, meta))
           /\ csv_summary' = IF TripleChanged(meta)
                             THEN Append(csv_summary, SummaryRow(0, meta))
                             ELSE csv_summary
           /\ prev' = [ ball |-> meta.ball, over |-> meta.over,
                        innings |-> meta.innings ]
    /\ flushed' = [ csv |-> Len(csv'), summary |-> Len(csv_summary') ]
    /\ foreign_access' = foreign_access \cup { "frame_counter", "prev" }
    /\ UNCHANGED << ProbeConfig, Directory, appsrc_q, pushed, emitted, probe,
                    Counters, ReadyLocals, Synthetic, load_size,
                    next_frame_time, now, pc, Ticks, Ownership >>

NextExtract == ProbeRecord

SpecExtract == InitExtract /\ [][NextExtract]_vars

\* ----------------------------------------------------------------- C23
\* what a field of the record is claimed to come out as
ClaimedField(f, form) ==
    IF form \in { "quoted", "bare" } THEN FieldValue(f) ELSE S_NA

\* C23: in the row of a record every field carries its own value if the
\* record has one that is well formed, and the sentinel otherwise,
\* whatever the other fields of the record look like.
C23_FieldsIndependent ==
    \A forms \in FormChoices :
       (csv # << >> /\ store[StoreKey(0)] = RecordOf(forms)) =>
           /\ \A f \in DOMAIN forms : csv[1][f] = ClaimedField(f, forms[f])
           /\ \A c \in MetaColumns \ DOMAIN forms : csv[1][c] = S_NA

\* ----------------------------------------------------------------- C25
\* the triple of the row before row i; before the first row it is the
\* initial value of prev_ball, prev_over, prev_innings
TripleBefore(rows, i) ==
    IF i = 1 THEN << << "0" >>, << "0" >>, << "0" >> >>
    ELSE << rows[i - 1].ball, rows[i - 1].over, rows[i - 1].innings >>

\* the rows of the primary log whose triple differs from the one before
ChangeRows(rows) ==
    SelectSeq([ i \in 1 .. Len(rows) |->
                  [ at |-> i,
                    changed |-> << rows[i].ball, rows[i].over, rows[i].innings >>
                                # TripleBefore(rows, i) ] ],
              LAMBDA r : r.changed)

\* C25: the summary log holds one row for each frame of the primary log
\* whose {ball, over, innings} differs from that of the frame before it,
\* in order and with that frame's values, and no other row.
C25_SummaryOnChange ==
    variant = "part_000" =>
        LET ch == ChangeRows(csv) IN
        /\ Len(csv_summary) = Len(ch)
        /\ \A j \in 1 .. Len(ch) :
              LET row == csv[ch[j].at] IN
              /\ csv_summary[j].frame_index = row.frame_index
              /\ csv_summary[j].pts_90k = row.pts_90k
              /\ csv_summary[j].ball = row.ball
              /\ csv_summary[j].over = row.over
              /\ csv_summary[j].innings = row.innings
              /\ csv_summary[j].matchID = row.matchID

\* two frames logged: the first changed the triple and has a summary row,
\* the second repeats the triple of the first and has none
C25_Witness ==
    /\ variant = "part_000"
    /\ Len(csv) = 2
    /\ Len(csv_summary) = 1
    /\ csv_summary[1].frame_index = csv[1].frame_index
    /\ << csv[2].ball, csv[2].over, csv[2].innings >>
         = << csv[1].ball, csv[1].over, csv[1].innings >>

\* ----------------------------------------------------------------- C26
\* C26: every row written to the primary or the summary log has been
\* flushed by the end of the step that wrote it.
C26_FlushedPerRow ==
    /\ flushed.csv = Len(csv)
    /\ flushed.summary = Len(csv_summary)

\* ----------------------------------------------------------------- C27
\* C27: no thread other than the feeder reads or writes frame_counter,
\* current_index or the last-observed ball, over and innings.
C27_FeederOwnsState == foreign_access = {}

\* ----------------------------------------------------------------- C28
\* what the feeder and the streaming thread work on
FeederVars == << Directory, Pipeline, Logs, Counters, ReadyLocals, Synthetic,
                 load_size, next_frame_time, now, pc, Ticks, Ownership >>

\* C28: after an error or end-of-stream message the main loop has quit,
\* after a message of another type it is still running, and the step that
\* handles a message of any type changes nothing of the feeder.
C28_OnlyErrorAndEosQuit ==
    /\ [](main.last_msg \in { "error", "eos" } =>
             main.pc # "loop" /\ main.quit_by = main.last_msg)
    /\ [](main.last_msg \in OtherMessages =>
             main.pc = "loop" /\ main.quit_by = "none")
    /\ [][ main' # main => UNCHANGED FeederVars ]_vars

\* a state-changed message was handled and the feeder went on to emit
C28_Witness ==
    /\ main.last_msg = "state_changed"
    /\ main.pc = "loop"
    /\ tick.outcome = "emitted"
    /\ frame_counter >= 1

\* ------------------------------------------------------------------------
\* main from its first line to the start of the feeder thread.

\* everything but main's position in the construction and the feeder's pc
BootRest == << variant, TARGET_FPS, start_index, redis, store, start_time,
               main, run, prev_run, foreign_access, Directory, Pipeline, Logs,
               Counters, ReadyLocals, Synthetic, load_size, next_frame_time,
               now, Ticks, Ownership >>

Return(code) == boot' = [ boot EXCEPT !.pc = "returned", !.status = code ]
Goto(p) == boot' = [ boot EXCEPT !.pc = p ]

InitStartup ==
    /\ variant \in Builds
    /\ TARGET_FPS = 300
    /\ start_index \in StartIndexSet
    /\ frame_counter = 0
    /\ current_index = start_index
    /\ now = 0
    /\ start_time = 0
    /\ next_frame_time = 0
    /\ pc = "not_started"
    /\ last_size = 0
    /\ attempt = 0
    /\ samples = << >>
    /\ load_size = 0
    /\ files \in (IF variant \in Variants
                  THEN [ FileIdx -> {Absent} \cup SizeSet ]
                  ELSE { [ i \in FileIdx |-> IFRAME_MIN_SIZE ] })
    /\ env_ops = 0
    /\ appsrc_q = << >>
    /\ pushed = << >>
    /\ emitted = << >>
    /\ custom_pts = CustomPtsBase
    /\ increment_index = 0
    /\ csv = << >>
    /\ csv_summary = << >>
    /\ flushed = NoRows
    /\ foreign_access = {}
    /\ lookups = << >>
    /\ boot \in { [ pc |-> IF "store" \in FaultsOf(variant)
                          THEN "connect" ELSE "create",
                    faults |-> f, bin |-> {}, links |-> {}, aac_added |-> {},
                    using_aac |-> FALSE, status |-> 0,
                    argv1 |-> start_index, listing |-> << >> ] :
                  f \in SUBSET FaultsOf(variant) }
    /\ redis = ("store" \in FaultsOf(variant) /\ "store" \notin boot.faults)
    /\ store = IF redis /\ variant = "part_000"
               THEN StoreOf(0 .. 1 \cup FileIdx) ELSE EmptyStore
    /\ prev = [ ball |-> << "0" >>, over |-> << "0" >>, innings |-> << "0" >> ]
    /\ probe = ProbeIdle
    /\ tick = NoTick
    /\ last_tick = NoTick
    /\ buffer_owner = "none"
    /\ late_ops = {}
    /\ main = MainLoop
    /\ run = 1
    /\ prev_run = NoRun

\* redisConnect: part_000 goes on with a null context, the store-backed
\* program of src/Makefile returns 1
Connect ==
    /\ boot.pc = "connect"
    /\ IF "store" \in boot.faults /\ variant = "makefile_ts"
       THEN Return(1)
       ELSE Goto("create")
    /\ UNCHANGED << BootRest, pc >>

\* gst_pipeline_new, gst_element_factory_make of every required element,
\* the null check, gst_bin_add_many
CreateElements ==
    /\ boot.pc = "create"
    /\ IF "element" \in boot.faults
       THEN Return(-1)
       ELSE boot' = [ boot EXCEPT !.pc = "link_video",
                                  !.bin = BaseBin(variant) ]
    /\ UNCHANGED << BootRest, pc >>

\* gst_element_link_many of the video branch
LinkVideo ==
    /\ boot.pc = "link_video"
    /\ IF "link_video" \in boot.faults
       THEN Return(-1)
       ELSE boot' = [ boot EXCEPT
                        !.pc = IF AudioChain(variant) # << >>
                               THEN "link_audio" ELSE "play",
                        !.links = @ \cup ChainLinks(VideoChain(variant)) ]
    /\ UNCHANGED << BootRest, pc >>

\* an audio link whose failure is reported and not acted on
LinkAudioIgnored ==
    /\ boot.pc = "link_audio"
    /\ boot' = [ boot EXCEPT
                   !.pc = IF variant = "makefile_av" THEN "aac" ELSE "link_sink",
                   !.links = IF "link_audio" \in boot.faults THEN @
                             ELSE @ \cup ChainLinks(AudioChain(variant)) ]
    /\ UNCHANGED << BootRest, pc >>

\* gst_element_link_many of the audio branch
LinkAudio ==
    /\ boot.pc = "link_audio"
    /\ IF "link_audio" \in boot.faults
       THEN Return(-1)
       ELSE boot' = [ boot EXCEPT
                        !.pc = IF variant = "makefile_av"
                               THEN "aac" ELSE "link_sink",
                        !.links = @ \cup ChainLinks(AudioChain(variant)) ]
    /\ UNCHANGED << BootRest, pc >>

\* the chain of the AAC attempt: with aacparse when the factory gave one
AacChain == IF "aacparse" \in boot.faults
            THEN << "ares", "aacenc", "aqueue" >>
            ELSE << "ares", "aacenc", "aacparse", "aqueue" >>

\* src/Makefile 573-599: if (aacenc) { add, link } ; using_aac only when
\* every link succeeded
TryAac ==
    /\ boot.pc = "aac"
    /\ IF "aacenc" \in boot.faults
       THEN Goto("unwind")
       ELSE LET added == SeqRange(AacChain) \ { "ares" } IN
            IF "aac_chain" \in boot.faults
            THEN \E k \in 0 .. (Len(AacChain) - 2) :
                    boot' = [ boot EXCEPT !.pc = "unwind",
                                !.bin = @ \cup added, !.aac_added = added,
                                !.links = @ \cup PrefixLinks(AacChain, k) ]
            ELSE IF "aac_mux" \in boot.faults
            THEN boot' = [ boot EXCEPT !.pc = "unwind",
                             !.bin = @ \cup added, !.aac_added = added,
                             !.links = @ \cup ChainLinks(AacChain) ]
            ELSE boot' = [ boot EXCEPT !.pc = "link_sink",
                             !.bin = @ \cup added, !.aac_added = added,
                             !.using_aac = TRUE,
                             !.links = @ \cup ChainLinks(AacChain)
                                         \cup { << "aqueue", "mpegtsmux" >> } ]
    /\ UNCHANGED << BootRest, pc >>

\* src/Makefile 601-604: gst_bin_remove of aacparse and aacenc
Unwind ==
    /\ boot.pc = "unwind"
    /\ boot' = [ boot EXCEPT
                   !.pc = "mp2",
                   !.bin = BinRemove(BinRemove(@, "aacparse"), "aacenc"),
                   !.links = Unlink(Unlink(@, "aacparse"), "aacenc") ]
    /\ UNCHANGED << BootRest, pc >>

\* src/Makefile 607-608: the MP2 encoder is made, or main returns -1
MakeMp2 ==
    /\ boot.pc = "mp2"
    /\ IF "mp2enc" \in boot.faults THEN Return(-1) ELSE Goto("mp2_add")
    /\ UNCHANGED << BootRest, pc >>

\* src/Makefile 609-620: gst_bin_add_many(mp2enc, aqueue) and the two links
AddMp2 ==
    /\ boot.pc = "mp2_add"
    /\ IF "mp2_chain" \in boot.faults \/ "mp2_mux" \in boot.faults
       THEN boot' = [ boot EXCEPT !.pc = "returned", !.status = -1,
                        !.bin = @ \cup { "mp2enc", "aqueue" } ]
       ELSE boot' = [ boot EXCEPT !.pc = "link_sink",
                        !.bin = @ \cup { "mp2enc", "aqueue" },
                        !.links = @ \cup ChainLinks(<< "ares", "mp2enc",
                                                      "aqueue", "mpegtsmux" >>) ]
    /\ UNCHANGED << BootRest, pc >>

\* gst_element_link(mpegtsmux, filesink)
LinkSink ==
    /\ boot.pc = "link_sink"
    /\ IF "link_sink" \in boot.faults
       THEN Return(-1)
       ELSE boot' = [ boot EXCEPT !.pc = "play",
                        !.links = @ \cup { << "mpegtsmux", "filesink" >> } ]
    /\ UNCHANGED << BootRest, pc >>

\* gst_element_set_state(pipeline, GST_STATE_PLAYING); std::thread feeder.
\* The feeders of the two programs of src/Makefile are not followed.
Play ==
    /\ boot.pc = "play"
    /\ pc = "not_started"
    /\ Goto("feeding")
    /\ pc' = IF variant \in Variants THEN "pace" ELSE "feed_frames"
    /\ UNCHANGED BootRest

Construction ==
    \/ Connect
    \/ CreateElements
    \/ LinkVideo
    \/ LinkAudio
    \/ TryAac
    \/ Unwind
    \/ MakeMp2
    \/ AddMp2
    \/ LinkSink
    \/ Play

NextStartup == Construction \/ Next

SpecStartup == InitStartup /\ [][NextStartup]_vars

\* ----------------------------------------------------------------- C29
\* a required element is missing, a required link fails, or neither audio
\* encoder can be put in place
AacFails == { "aacenc", "aac_chain", "aac_mux" } \cap boot.faults # {}
Mp2Fails == { "mp2enc", "mp2_chain", "mp2_mux" } \cap boot.faults # {}
ConstructionFails ==
    \/ { "element", "link_video", "link_audio", "link_sink" } \cap boot.faults # {}
    \/ (variant = "makefile_av" /\ AacFails /\ Mp2Fails)

\* C29: in a run in which a required element or link fails the feeder
\* thread is never started, no buffer is pushed, and when main has
\* returned its status is not zero.
C29_FailedConstructionNoFeed ==
    ConstructionFails =>
        /\ boot.pc # "feeding"
        /\ pc = "not_started"
        /\ pushed = << >>
        /\ boot.pc = "returned" => boot.status # 0

\* main has returned -1 with both audio encoders unavailable
C29_Witness ==
    /\ boot.pc = "returned"
    /\ boot.status = -1
    /\ { "aacenc", "mp2enc" } \subseteq boot.faults
    /\ boot.faults \cap { "element", "link_video", "link_audio" } = {}

\* ---------------------------------------------------------------------
\* Encoder fallback of the audio/video program (src/Makefile 570-623)
\* ---------------------------------------------------------------------
AudioEncoders == { "aacenc", "mp2enc" }

\* the encoder e sits in the bin on a linked path ares -> e [-> aacparse]
\* -> aqueue -> mpegtsmux
EncoderLinked(e) ==
    /\ e \in boot.bin
    /\ << "ares", e >> \in boot.links
    /\ \/ << e, "aqueue" >> \in boot.links
       \/ { << e, "aacparse" >>, << "aacparse", "aqueue" >> } \subseteq boot.links
    /\ << "aqueue", "mpegtsmux" >> \in boot.links

\* C30: in the audio/video program, whenever the pipeline is set to
\* PLAYING exactly one audio encoder is in the pipeline and linked between
\* the resampler and the muxer; and when the AAC attempt failed, every
\* element added for it has left the bin before the MP2 encoder and its
\* queue are added.
C30_FallbackUnwound ==
    variant = "makefile_av" =>
        /\ boot.pc \in { "play", "feeding" } =>
              /\ Cardinality(AudioEncoders \cap boot.bin) = 1
              /\ \A e \in AudioEncoders \cap boot.bin : EncoderLinked(e)
        /\ boot.pc = "mp2_add" => boot.aac_added \cap boot.bin = {}

\* C24: a key-value store that cannot be reached is never fatal: with the
\* store as the only fault main does not return, no GET is issued again for
\* a frame, and every pushed frame is logged once it has passed the probe.
C24_StoreNeverFatal ==
    "store" \in boot.faults =>
        /\ boot.faults = { "store" } => boot.pc # "returned"
        /\ lookups = << >>
        /\ Len(pushed) = Len(csv) + Len(appsrc_q) + (IF probe.busy THEN 1 ELSE 0)

\* ------------------------------------------------------------------------
\* The start index: main reads argv[1] and, when it is 0, asks the
\* directory for its first frame file (part_000 42-61, 377-380; the
\* audio/video program of src/Makefile 275-293, 449-455 always asks).

MaxListing == 3

\* current_index = find_first_index_fast(FRAME_FOLDER) + 6000
FirstIndexOffset == 6000

\* a call that left by an exception
Thrown == -1

\* the camera of the files another capture process writes to the folder
OtherCamera == << "c", "2" >>
ListedIndices == { 3, 5 }

\* the names found in the folder: frames of the configured camera and of
\* the other one
FrameName(cam, idx) ==
    S_frame_ \o cam \o << "_" >> \o ZeroPad(Decimal(idx), 9) \o S_hevc
EntryNames ==
    { FrameName(c, i) : c \in { camera_prefix, OtherCamera }, i \in ListedIndices }

\* fs::directory_iterator: every entry once, in an order the file system
\* chooses
Listings ==
    { l \in UNION { [ 1 .. n -> EntryNames ] : n \in 0 .. MaxListing } :
        \A i, j \in 1 .. Len(l) : l[i] = l[j] => i = j }

\* the prefix find_first_index_fast looks for ("frame_camera01_" in
\* part_000, "frame_camera05_" in src/Makefile); the camera of the model
\* stands for the one named there
ScanPrefix == S_frame_ \o camera_prefix \o << "_" >>

Digits == { DigitChar(d) : d \in 0 .. 9 }
DigitOf(c) == CHOOSE d \in 0 .. 9 : DigitChar(d) = c

RECURSIVE DigitsValue(_)
DigitsValue(s) == IF s = << >> THEN 0
                  ELSE DigitsValue(SubSeq(s, 1, Len(s) - 1)) * 10
                       + DigitOf(s[Len(s)])

\* std::stoull: the number written by the leading digits; no digit throws
stoull(s) ==
    LET others == { p \in 1 .. Len(s) : s[p] \notin Digits }
        n == IF others = {} THEN Len(s)
             ELSE (CHOOSE p \in others : \A q \in others : p <= q) - 1
    IN  IF n = 0 THEN Thrown ELSE DigitsValue(SubSeq(s, 1, n))

\* find_first_index_fast.  part_000 returns the number of the first entry,
\* in iteration order, that starts with the prefix and contains ".hevc";
\* src/Makefile looks at the first entry only.
find_first_index_fast(b, listing) ==
    LET number(fname) ==
            stoull(StrSubstr(fname, Len(ScanPrefix),
                             Len(fname) - Len(ScanPrefix) - Len(S_hevc)))
    IN  IF b = "makefile_av"
        THEN IF listing = << >> THEN Thrown
             ELSE IF /\ StrFind(listing[1], ScanPrefix, 0) = 0
                     /\ Len(listing[1]) > Len(ScanPrefix) + Len(S_hevc)
                  THEN number(listing[1])
                  ELSE Thrown
        ELSE LET hits == { i \in 1 .. Len(listing) :
                             /\ StrFind(listing[i], ScanPrefix, 0) = 0
                             /\ StrFind(listing[i], S_hevc, 0) # -1 }
             IN  IF hits = {} THEN Thrown
                 ELSE number(listing[CHOOSE i \in hits : \A j \in hits : i <= j])

\* main has connected to the store where it does and is about to read
\* argv[1]; the audio/video program has no such argument
InitStartIndex ==
    /\ variant \in Builds
    /\ TARGET_FPS = 300
    /\ start_index = 0
    /\ frame_counter = 0
    /\ current_index = 0
    /\ now = 0
    /\ start_time = 0
    /\ next_frame_time = 0
    /\ pc = "not_started"
    /\ last_size = 0
    /\ attempt = 0
    /\ samples = << >>
    /\ load_size = 0
    /\ boot \in { [ pc |-> "args", faults |-> {}, bin |-> {}, links |-> {},
                    aac_added |-> {}, using_aac |-> FALSE, status |-> 0,
                    argv1 |-> a, listing |-> l ] :
                  a \in (IF variant = "makefile_av" THEN { 0 }
                         ELSE { 0 } \cup StartIndexSet),
                  l \in Listings }
    /\ files = [ i \in { j \in ListedIndices :
                           FrameName(camera_prefix, j) \in SeqRange(boot.listing) }
                 |-> IFRAME_MIN_SIZE ]
    /\ env_ops = 0
    /\ appsrc_q = << >>
    /\ pushed = << >>
    /\ emitted = << >>
    /\ custom_pts = CustomPtsBase
    /\ increment_index = 0
    /\ csv = << >>
    /\ csv_summary = << >>
    /\ flushed = NoRows
    /\ foreign_access = {}
    /\ lookups = << >>
    /\ redis = ("store" \in FaultsOf(variant))
    /\ store = EmptyStore
    /\ prev = [ ball |-> << "0" >>, over |-> << "0" >>, innings |-> << "0" >> ]
    /\ probe = ProbeIdle
    /\ tick = NoTick
    /\ last_tick = NoTick
    /\ buffer_owner = "none"
    /\ late_ops = {}
    /\ main = MainLoop
    /\ run = 1
    /\ prev_run = NoRun

\* current_index = std::stoull(argv[1]); if (current_index == 0)
\* current_index = find_first_index_fast(FRAME_FOLDER) + 6000;
\* The exception of find_first_index_fast is caught in src/Makefile
\* (return 1) and by nothing in part_000.
StartIndex ==
    /\ boot.pc = "args"
    /\ LET asks == variant = "makefile_av"
                   \/ (variant = "part_000" /\ boot.argv1 = 0)
           first == find_first_index_fast(variant, boot.listing)
           idx == IF ~asks THEN boot.argv1
                  ELSE IF variant = "part_000" THEN first + FirstIndexOffset
                  ELSE first
       IN  IF asks /\ first = Thrown
           THEN /\ IF variant = "makefile_av" THEN Return(1)
                   ELSE Goto("terminated")
                /\ UNCHANGED << current_index, start_index >>
           ELSE /\ current_index' = idx
                /\ start_index' = idx
                /\ Goto("create")
    /\ UNCHANGED << variant, TARGET_FPS, redis, store, start_time, main, run,
                    prev_run, foreign_access, Directory, Pipeline, Logs,
                    frame_counter, ReadyLocals, Synthetic, load_size,
                    next_frame_time, now, Ticks, Ownership, pc >>

NextStartIndex == StartIndex

SpecStartIndex == InitStartIndex /\ [][NextStartIndex]_vars

\* the indices of the configured camera's frame files in the folder
CameraIndices ==
    { i \in ListedIndices :
        FrameName(camera_prefix, i) \in SeqRange(boot.listing) }

\* C31: in the builds that look for the first file, once main has set
\* current_index, a start index of 0 has become the
\* smallest index among the configured camera's frame files in the folder,
\* or that index plus the fixed offset, and a non-zero start index is
\* current_index unchanged.
C31_StartIndex ==
    variant \in { "part_000", "makefile_av" } /\ boot.pc = "create" =>
        IF boot.argv1 = 0
        THEN CameraIndices # {} =>
               LET smallest == CHOOSE i \in CameraIndices :
                                  \A j \in CameraIndices : i <= j
               IN  current_index \in { smallest, smallest + FirstIndexOffset }
        ELSE current_index = boot.argv1

\* ------------------------------------------------------------------------
\* A run on a complete directory: every file of FileIdx is present and is
\* left alone by the producer, gst_buffer_map succeeds and appsrc takes
\* every buffer.  The store is not connected; the feeder never looks at
\* what the probe got from it.  The threads are scheduled: a step that
\* stays possible is taken.
InitFeedAll ==
    /\ Init
    /\ ~redis
    /\ \A i \in FileIdx : files[i] # Absent

NextFeedAll ==
    \/ Pace
    \/ ReadyExists
    \/ ReadyFirstSize
    \/ ReadySleep
    \/ ReadySample
    \/ Classify
    \/ Skip
    \/ Open
    \/ Read
    \/ PushAccepted
    \/ Advance
    \/ ProbeLookup
    \/ ProbeLog

FeedAllStep == [][NextFeedAll]_vars

SpecFeedAll ==
    /\ InitFeedAll
    /\ FeedAllStep
    /\ WF_vars(NextFeedAll)

\* the files of the directory the feeder loads: the keyframes where the
\* filter is built in, every file elsewhere
ExpectedBuffers ==
    IF variant = "part_000"
    THEN Cardinality({ i \in FileIdx : is_iframe(files[i]) })
    ELSE Cardinality(FileIdx)

C33_StampedBeforePush ==
    \A i \in 1 .. Len(pushed) :
        /\ pushed[i].pts = gst_util_uint64_scale(i - 1, GST_SECOND, TARGET_FPS)
        /\ pushed[i].dts = pushed[i].pts
        /\ pushed[i].duration = gst_util_uint64_scale(1, GST_SECOND, TARGET_FPS)

\* ------------------------------------------------------------------------
\* part_000 connected to a store that may leave a GET without an answer, on
\* a complete and stable directory.  The directory holds no more keyframes
\* than appsrc holds buffers here, so that a probe that does not return
\* cannot hold up the feeder through the bound on the queue.
InitSilentStore ==
    /\ Init
    /\ variant = "part_000"
    /\ redis
    /\ store = EmptyStore
    /\ \A i \in FileIdx : files[i] # Absent
    /\ Cardinality({ i \in FileIdx : is_iframe(files[i]) }) <= MaxInFlight

NextSilentStore ==
    \/ Pace
    \/ ReadyExists
    \/ ReadyFirstSize
    \/ ReadySleep
    \/ ReadySample
    \/ Classify
    \/ Skip
    \/ Open
    \/ Read
    \/ PushAccepted
    \/ Advance
    \/ ProbeLookup
    \/ ProbeLookupUnanswered
    \/ ProbeLog

SilentStoreStep == [][NextSilentStore]_vars

SpecSilentStore ==
    /\ InitSilentStore
    /\ SilentStoreStep
    /\ WF_vars(NextSilentStore)

\* C34: with a store that does not answer a lookup the feeder still goes
\* through the directory, counting and pushing every keyframe, and every
\* pushed frame still gets its row in the primary log.
C34_SilentStoreHarmless ==
    /\ <>[](/\ current_index = start_index + MaxFiles
            /\ frame_counter = ExpectedBuffers
            /\ Len(pushed) = ExpectedBuffers)
    /\ <>[](Len(csv) = ExpectedBuffers)

\* ------------------------------------------------------------------------
\* is_file_ready against a producer that may write, rewrite or remove the
\* file before every look the function takes at it.

\* the producer changes the file the feeder is looking at, as often as it
\* likes
ProducerWrites ==
    /\ ObservePoint
    /\ current_index \in FileIdx
    /\ \E s \in ({ Absent } \cup SizeSet) \ { files[current_index] } :
          files' = [ files EXCEPT ![current_index] = s ]
    /\ UNCHANGED << EnvVars, env_ops >>

NextReady ==
    \/ Pace
    \/ ReadyExists
    \/ ReadyFirstSize
    \/ ReadySleep
    \/ ReadySample
    \/ ProducerWrites

SpecReady == Init /\ [][NextReady]_vars

\* is_file_ready returned false in the tick that just ended
ReturnedNotReady == pc = "pace" /\ tick.outcome = "not_ready"

\* every two successive size samples of the call differ
AllPairsDiffer ==
    \A i \in 1 .. (Len(samples) - 1) : samples[i] # samples[i + 1]

\* C35: is_file_ready comes to an end after the size query that opens the
\* window and at most max_attempts probes; it returns not-ready when the
\* file is absent or when every two successive sizes differed, ready
\* otherwise, and ends in no other way.
C35_BoundedReadiness ==
    /\ Len(samples) <= max_attempts + 1
    /\ attempt <= max_attempts
    /\ pc # "terminate_ready"
    /\ ReturnedNotReady =>
          /\ AllPairsDiffer
          /\ ~Exists(current_index) \/ Len(samples) = max_attempts + 1
    /\ ReturnedReady =>
          /\ Len(samples) >= 2
          /\ samples[Len(samples)] = samples[Len(samples) - 1]

\* ------------------------------------------------------------------ C36
\* C36: the classification taken at the filter is "keyframe" exactly when
\* the file exists and holds at least 30 * 1024 bytes, and a file that is
\* gone when the filter looks at it is skipped: the skip branch ends with
\* current_index advanced by one, never in anything else.
C36_MissingFileSkipped ==
    /\ [][ pc = "classify" /\ pc' # "classify" =>
             IF Exists(current_index) /\ FileSizeOf(current_index) >= 30 * 1024
             THEN pc' = "open" ELSE pc' = "skip" ]_vars
    /\ [][ pc = "skip" /\ pc' # "skip" =>
             pc' = "pace" /\ current_index' = current_index + 1 ]_vars

\* ------------------------------------------------------------------ C37
\* C37: however the feeder and the streaming thread interleave, the frame
\* index column of the primary log starts at 0 and goes up by one from row
\* to row, and the row of the i-th pushed buffer carries the value
\* frame_counter had at its push, i - 1.
C37_RowIndexOfPush ==
    /\ csv # << >> => csv[1].frame_index = 0
    /\ \A i \in 2 .. Len(csv) :
          csv[i].frame_index = csv[i - 1].frame_index + 1
    /\ \A i \in 1 .. Len(csv) : i <= Len(pushed) /\ csv[i].frame_index = i - 1

\* ------------------------------------------------------------------ C38
\* C38: in the build that logs the synthetic 90 kHz PTS, at every frame
\* rate the logged PTS of frame k * F is k * 90000 ticks above the logged
\* PTS of frame 0, and the logged PTS goes up from every row to the next.
C38_SyntheticSeconds ==
    \A i \in 1 .. Len(csv) :
        /\ (i - 1) % TARGET_FPS = 0 =>
              csv[i].pts_90k - csv[1].pts_90k = ((i - 1) \div TARGET_FPS) * 90000
        /\ i > 1 => csv[i].pts_90k > csv[i - 1].pts_90k

\* ------------------------------------------------------------------ C39
\* C39: in the build with the keyframe filter the target time of a tick is
\* start_time + frame_counter * frame_duration, so the tick that follows a
\* skipped or a not-ready tick has the target of the tick before it.
C39_TargetFromCounterOnly ==
    variant = "part_000" =>
        /\ tick.outcome # "none" =>
              tick.target = start_time
                            + tick.counter * frame_duration(TARGET_FPS)
        /\ (tick.outcome # "none"
            /\ last_tick.outcome \in { "skipped", "not_ready" }) =>
              /\ tick.target = last_tick.target
              /\ tick.counter = last_tick.counter

\* a frame emitted in the tick after a skipped index
C39_Witness ==
    /\ variant = "part_000"
    /\ tick.outcome = "emitted"
    /\ last_tick.outcome = "skipped"
    /\ tick.index = last_tick.index + 1
    /\ tick.target = last_tick.target

====
